---- MODULE Spec2Model ----
(***************************************************************************)
(* A model of the event-annotation tool's back end (src/app.py): the       *)
(* overlap-aware split plan, the per-annotator annotation stores, the      *)
(* agreement metrics and the majority-vote merge.                          *)
(*                                                                         *)
(* Files under DATA_DIR are state variables.  A file that may be absent is *)
(* a sequence of length 0 (absent) or 1 (its parsed JSON content).         *)
(***************************************************************************)
EXTENDS Integers, Sequences, FiniteSets, TLC

\* ---------------------------------------------------------------- bounds
MaxItems == 3          \* item ids are 1..MaxItems
MaxAnnotators == 3     \* annotator ids are 0..MaxAnnotators-1
MaxOverlapAnnotators == 3 \* largest overlap_annotators value of config.json
MaxClock == 2          \* the clock reads 0..MaxClock
MaxRngAlgo == 1        \* generator variants 0..MaxRngAlgo
MaxRecords == 3         \* records in the annotation files together
MaxKappaItems == 5      \* items the two annotators of a kappa have annotated
MaxThreads == 2         \* threads that serve requests at the same time
MaxCalls == 2           \* calls one thread runs, one after the other
MaxThreadClock == 1     \* the clock reads 0..MaxThreadClock while threads run

\* ------------------------------------------------------ program constants
SPLIT_SEED == 42

\* The pseudo-random generator behind the random module: a Lehmer generator
\* with a full period over 1..RngMod-1.  Its stream is a function of the seed.
RngMod == 31
RngMul == 3

OverlapPercents == {0, 15, 50, 100}
None == "None"

VARIABLES
    config,        \* config.json: num_annotators, iaa_overlap_percent, overlap_annotators
    inputData,     \* input_data.json: the sequence of items
    planFile,      \* split_metadata.json: <<>> or <<plan>>
    annFiles,      \* annotations/annotator_<id>.json: annotator id -> sequence of records
    rng,           \* the state of the process-wide random generator
    rngAlgo,       \* which generator the interpreter ships (fixed per behaviour)
    clock,         \* datetime.utcnow()
    resp,          \* the last operation's call and its result
    prev,          \* the call and result before that
    threads        \* request thread -> where it is in the call it runs, and its locals

vars == <<config, inputData, planFile, annFiles, rng, rngAlgo, clock, resp, prev, threads>>

\* ------------------------------------------------------------ sequences
Min(a, b) == IF a <= b THEN a ELSE b
Max(a, b) == IF a >= b THEN a ELSE b

Range(s) == {s[i] : i \in DOMAIN s}

\* s[:k] of Python, for any integer k
Slice(s, k) ==
    IF k >= 0 THEN SubSeq(s, 1, Min(k, Len(s)))
    ELSE SubSeq(s, 1, Max(Len(s) + k, 0))

\* "x in list"
InList(x, s) == \E i \in DOMAIN s : s[i] = x

\* list with position i (1-based) set to v
SetAt(s, i, v) == [s EXCEPT ![i] = v]

\* tuple comparison of Python, on tuples of integers of equal length
RECURSIVE KeyLess(_, _)
KeyLess(a, b) ==
    IF a = <<>> \/ b = <<>> THEN FALSE
    ELSE IF Head(a) # Head(b) THEN Head(a) < Head(b)
    ELSE KeyLess(Tail(a), Tail(b))

\* insert x = [key, val] after every element whose key is <= x.key
RECURSIVE InsertSorted(_, _)
InsertSorted(s, x) ==
    IF s = <<>> THEN <<x>>
    ELSE IF KeyLess(x.key, Head(s).key) THEN <<x>> \o s
    ELSE <<Head(s)>> \o InsertSorted(Tail(s), x)

\* list.sort(key=...) / sorted: stable, ascending; s is a sequence of
\* [key |-> tuple of integers, val |-> element]
RECURSIVE SortDecorated(_)
SortDecorated(s) ==
    IF s = <<>> THEN <<>>
    ELSE InsertSorted(SortDecorated(SubSeq(s, 1, Len(s) - 1)), s[Len(s)])

Undecorate(s) == [i \in DOMAIN s |-> s[i].val]

\* sorted(list of integers)
SortedInts(s) == Undecorate(SortDecorated([i \in DOMAIN s |-> [key |-> <<s[i]>>, val |-> s[i]]]))

IsStrictlySortedInts(s) == \A i, j \in DOMAIN s : i < j => s[i] < s[j]
NoDuplicates(s) == \A i, j \in DOMAIN s : i # j => s[i] # s[j]

\* --------------------------------------------------------- random module
\* random.seed(s): the generator's state is a function of the seed alone
RandomSeed(s) == ((s + rngAlgo) % (RngMod - 1)) + 1

\* one step of the generator
RandomNext(r) == (r * RngMul) % RngMod

\* random.random(): returns [value |-> v, rng |-> r']
RandomRandom(r) == [value |-> RandomNext(r), rng |-> RandomNext(r)]

\* _randbelow(n), n >= 1
RandBelow(r, n) == [value |-> RandomNext(r) % n, rng |-> RandomNext(r)]

RECURSIVE SampleLoop(_, _, _, _)
\* the pool loop of random.sample: k draws without replacement
SampleLoop(pool, n, k, r) ==
    IF k = 0 THEN [value |-> <<>>, rng |-> r]
    ELSE LET d == RandBelow(r, n)
             j == d.value + 1
             rest == SampleLoop(SetAt(pool, j, pool[n]), n - 1, k - 1, d.rng)
         IN  [value |-> <<pool[j]>> \o rest.value, rng |-> rest.rng]

\* random.sample(population, k)
RandomSample(population, k, r) == SampleLoop(population, Len(population), k, r)

RECURSIVE ShuffleLoop(_, _, _)
\* the loop of random.shuffle: for i in reversed(range(1, len(x)))
ShuffleLoop(x, i, r) ==
    IF i < 1 THEN [value |-> x, rng |-> r]
    ELSE LET d == RandBelow(r, i + 1)
             j == d.value
             swapped == [x EXCEPT ![i + 1] = x[j + 1], ![j + 1] = x[i + 1]]
         IN  ShuffleLoop(swapped, i - 1, d.rng)

\* random.shuffle(x)
RandomShuffle(x, r) == ShuffleLoop(x, Len(x) - 1, r)

\* ------------------------------------------------- dicts (insertion-ordered)
\* A dict is a sequence of <<key, value>> pairs with distinct keys, in
\* insertion order; json.dump / json.load keep that order and the keys, which
\* are strings already.
DictKeys(d) == [i \in DOMAIN d |-> d[i][1]]
DictGet(d, k, default) ==
    IF \E i \in DOMAIN d : d[i][1] = k THEN d[CHOOSE i \in DOMAIN d : d[i][1] = k][2] ELSE default

\* str(i) and int(s) on the integers the model uses
Str(i) == ToString(i)
ParseInt(s) == CHOOSE i \in -1..(MaxItems + MaxAnnotators + 2) : ToString(i) = s

\* ------------------------------------------------------------- input items
Item(i) == [id |-> i, sentence |-> "s", tokens |-> <<"t">>, model_prediction |-> None]

\* [f(x) for x in s if P(x)] for "id not in overlap_item_ids"
RECURSIVE NotIn(_, _)
NotIn(s, excluded) ==
    IF s = <<>> THEN <<>>
    ELSE IF InList(Head(s), excluded) THEN NotIn(Tail(s), excluded)
    ELSE <<Head(s)>> \o NotIn(Tail(s), excluded)

\* math.ceil(total_items * (percent / 100)); the percentages of
\* OverlapPercents are those where the float product rounds as the exact one
CeilPercent(total, percent) == (total * percent + 99) \div 100

\* --------------------------------------------------- generate_split_metadata
RECURSIVE DrawScoresIgnoringCounts(_, _, _, _)
\* DrawScores that leaves the running counts out of the sort key
DrawScoresIgnoringCounts(i, n, counts, r) ==
    IF i >= n THEN [value |-> <<>>, rng |-> r]
    ELSE LET d == RandomRandom(r)
             rest == DrawScoresIgnoringCounts(i + 1, n, counts, d.rng)
         IN  [value |-> <<[key |-> <<0, d.value>>, val |-> i]>> \o rest.value,
              rng |-> rest.rng]

RECURSIVE DrawScores(_, _, _, _)
\* [(i, annotator_overlap_counts[i], random.random()) for i in range(n)]
DrawScores(i, n, counts, r) ==
    IF i >= n THEN [value |-> <<>>, rng |-> r]
    ELSE LET d == RandomRandom(r)
             rest == DrawScores(i + 1, n, counts, d.rng)
         IN  [value |-> <<[key |-> <<counts[i + 1], d.value>>, val |-> i]>> \o rest.value,
              rng |-> rest.rng]

\* SelectAnnotators with the slice one short
SelectAnnotatorsOneShort(scores, overlap_annotators) ==
    Undecorate(Slice(SortDecorated(scores), overlap_annotators - 1))

\* annotator_scores.sort(...); [a[0] for a in annotator_scores[:overlap_annotators]]
SelectAnnotators(scores, overlap_annotators) ==
    Undecorate(Slice(SortDecorated(scores), overlap_annotators))

\* counts with 1 added for every selected annotator (counts is 1-based here)
BumpCounts(counts, selected) ==
    [i \in DOMAIN counts |-> IF InList(i - 1, selected) THEN counts[i] + 1 ELSE counts[i]]

RECURSIVE OverlapLoop(_, _, _, _, _)
\* for item_id in overlap_item_ids: ...   returns the dict, the counts and the rng
OverlapLoop(ids, n, k, counts, r) ==
    IF ids = <<>> THEN [value |-> <<>>, counts |-> counts, rng |-> r]
    ELSE LET d == DrawScores(0, n, counts, r)
             selected == SelectAnnotators(d.value, k)
             rest == OverlapLoop(Tail(ids), n, k, BumpCounts(counts, selected), d.rng)
         IN  [value |-> <<<<Str(Head(ids)), selected>>>> \o rest.value,
              counts |-> rest.counts, rng |-> rest.rng]

RECURSIVE EveryNth(_, _, _, _)
\* the elements of ids at the 0-based positions i >= from with i % n = a
EveryNth(ids, from, n, a) ==
    IF from >= Len(ids) THEN <<>>
    ELSE IF from % n = a THEN <<ids[from + 1]>> \o EveryNth(ids, from + 1, n, a)
    ELSE EveryNth(ids, from + 1, n, a)

\* RoundRobin with one list shared by every annotator (dict.fromkeys(keys, []))
RoundRobinSharedList(ids, n) == [a \in 1..n |-> <<Str(a - 1), ids>>]

\* unique_assignments = {str(i): [] for i in range(n)};
\* unique_assignments[str(i % n)].append(item_id) for i, item_id in enumerate(ids)
RoundRobin(ids, n) == [a \in 1..n |-> <<Str(a - 1), EveryNth(ids, 0, n, a - 1)>>]

\* SeedForPlan with the seeding left out: the generator continues where it was
SeedForPlanMissing(r) == r

\* the random.seed(SPLIT_SEED) statement
SeedForPlan(r) == RandomSeed(SPLIT_SEED)

\* the 'generated_at' entry
GeneratedAt(now) == now

\* generate_split_metadata(all_data, config), run with the generator in state
\* r at time now: returns [plan |-> metadata, rng |-> generator state after]
GenerateSplitMetadata(all_data, cfg, r, now) ==
    LET r0 == SeedForPlan(r)
        total_items == Len(all_data)
        num_annotators == cfg.num_annotators
        overlap_annotators == cfg.overlap_annotators
        overlap_count == CeilPercent(total_items, cfg.iaa_overlap_percent)
        all_item_ids == [i \in DOMAIN all_data |-> all_data[i].id]
        sample == RandomSample(all_item_ids, Min(overlap_count, Len(all_item_ids)), r0)
        overlap_item_ids == SortedInts(sample.value)
        unique_item_ids == NotIn(all_item_ids, overlap_item_ids)
        overlap == OverlapLoop(overlap_item_ids, num_annotators, overlap_annotators,
                               [i \in 1..num_annotators |-> 0], sample.rng)
        shuffled == RandomShuffle(unique_item_ids, overlap.rng)
    IN  [plan |->
            [overlap_item_ids |-> overlap_item_ids,
             overlap_assignments |-> overlap.value,
             unique_assignments |-> RoundRobin(shuffled.value, num_annotators),
             generated_at |-> GeneratedAt(now),
             seed |-> SPLIT_SEED,
             config_snapshot |->
                [num_annotators |-> num_annotators,
                 iaa_overlap_percent |-> cfg.iaa_overlap_percent,
                 overlap_annotators |-> overlap_annotators,
                 total_items |-> total_items]],
         rng |-> shuffled.rng]

\* ------------------------------------------------------ load_json / save_json
\* json.dump then json.load of the plan and of a record list gives the value
\* back: every dict key in them is a string already, ids are integers.
SaveJson(data) == <<data>>
\* the file between open(full_path, 'w'), which empties it, and the end of
\* json.dump: it exists and json.load of it raises
Truncated == <<[truncated |-> TRUE]>>
LoadJson(file) == file[1]
FileExists(file) == file # <<>>

\* dict.get(key, default) on a JSON object, which is a record here
Get(obj, key, default) == IF key \in DOMAIN obj THEN obj[key] ELSE default

\* ------------------------------------------------------ ensure_split_metadata
\* "return load_json(metadata_path)": nothing is written, no random draw
PlanLoaded(pf, r) == [metadata |-> LoadJson(pf), planFile |-> pf, rng |-> r]

\* "save_json(metadata_path, metadata); return metadata" for the result g of
\* generate_split_metadata
PlanGenerated(g) == [metadata |-> g.plan, planFile |-> SaveJson(g.plan), rng |-> g.rng]

\* EnsureSplitMetadata with the plan made again when the configuration differs
\* from the plan's snapshot
EnsureSplitMetadataRegenerating(pf, cfg, data, r, now) ==
    IF FileExists(pf) /\ LoadJson(pf).config_snapshot.num_annotators = cfg.num_annotators
                      /\ LoadJson(pf).config_snapshot.iaa_overlap_percent = cfg.iaa_overlap_percent
                      /\ LoadJson(pf).config_snapshot.overlap_annotators = cfg.overlap_annotators
    THEN PlanLoaded(pf, r)
    ELSE PlanGenerated(GenerateSplitMetadata(data, cfg, r, now))

\* ensure_split_metadata(), with split_metadata.json = pf, config.json = cfg,
\* input_data.json = data: returns the metadata and the file and generator after
EnsureSplitMetadata(pf, cfg, data, r, now) ==
    IF FileExists(pf)
    THEN PlanLoaded(pf, r)
    ELSE PlanGenerated(GenerateSplitMetadata(data, cfg, r, now))

\* ------------------------------------------------ get_annotator_split_with_iaa
\* data_by_id = {item['id']: item for item in data}: the last item of an id wins
HasId(data, id) == \E i \in DOMAIN data : data[i].id = id
ById(data, id) == data[CHOOSE i \in DOMAIN data :
                            data[i].id = id /\ \A j \in DOMAIN data : data[j].id = id => j <= i]

RECURSIVE OverlapItemsOfEveryone(_, _, _)
\* OverlapItemsOf without the test "annotator_id in annotators"
OverlapItemsOfEveryone(assignments, annotator_id, data) ==
    IF assignments = <<>> THEN <<>>
    ELSE LET item_id == ParseInt(Head(assignments)[1])
             rest == OverlapItemsOfEveryone(Tail(assignments), annotator_id, data)
         IN  IF HasId(data, item_id) THEN <<ById(data, item_id)>> \o rest ELSE rest

RECURSIVE OverlapItemsOf(_, _, _)
\* the loop over metadata['overlap_assignments'].items()
OverlapItemsOf(assignments, annotator_id, data) ==
    IF assignments = <<>> THEN <<>>
    ELSE LET item_id == ParseInt(Head(assignments)[1])
             rest == OverlapItemsOf(Tail(assignments), annotator_id, data)
         IN  IF InList(annotator_id, Head(assignments)[2]) /\ HasId(data, item_id)
             THEN <<ById(data, item_id)>> \o rest
             ELSE rest

RECURSIVE ItemsOfIds(_, _)
\* [data_by_id[id] for id in ids if id in data_by_id]
ItemsOfIds(ids, data) ==
    IF ids = <<>> THEN <<>>
    ELSE IF HasId(data, Head(ids)) THEN <<ById(data, Head(ids))>> \o ItemsOfIds(Tail(ids), data)
    ELSE ItemsOfIds(Tail(ids), data)

\* all_items = overlap_items + unique_items, before the shuffle
SplitItems(annotator_id, data, metadata) ==
    OverlapItemsOf(metadata.overlap_assignments, annotator_id, data)
        \o ItemsOfIds(\* metadata['unique_assignments'].get(annotator_str, [])
                      DictGet(metadata.unique_assignments, Str(annotator_id), <<>>),
                      data)

\* the body of get_annotator_split_with_iaa after "metadata = ensure_split_metadata()",
\* e being what that call returned: the item list, with the plan file and
\* the generator after
SplitOf(annotator_id, data, e) ==
    LET Result(shuffled) ==
            [items |-> shuffled.value, metadata |-> e.metadata,
             planFile |-> e.planFile, rng |-> shuffled.rng]
    IN  Result(RandomShuffle(SplitItems(annotator_id, data, e.metadata),
                             RandomSeed(SPLIT_SEED + annotator_id)))

\* get_annotator_split_with_iaa(annotator_id, data): returns the item list
\* and the plan file and generator after
GetAnnotatorSplitWithIaa(annotator_id, data, pf, cfg, r, now) ==
    SplitOf(annotator_id, data, EnsureSplitMetadata(pf, cfg, data, r, now))

\* is_overlap_item(item_id): the answer, and the plan file and generator after
IsOverlapItem(item_id, pf, cfg, data, r, now) ==
    LET Answer(e) ==
            [value |-> InList(item_id, e.metadata.overlap_item_ids), metadata |-> e.metadata,
             planFile |-> e.planFile, rng |-> e.rng]
    IN  Answer(EnsureSplitMetadata(pf, cfg, data, r, now))

\* ------------------------------------------- load_annotations / save_annotation
\* load_annotations(annotator_id): the file's list, [] when there is no file
LoadAnnotations(files, annotator_id) == files[annotator_id]

\* annotations.sort(key=lambda x: x['id'])
SortById(annotations) ==
    Undecorate(SortDecorated([i \in DOMAIN annotations |->
                                [key |-> <<annotations[i].id>>, val |-> annotations[i]]]))

\* Upsert that always appends
UpsertAppending(annotations, annotation_data) ==
    SortById(Append(annotations, annotation_data))

\* the list save_annotation writes: replace the record of the id or append, then sort
Upsert(annotations, annotation_data) ==
    LET \* index of the first record with this id, 0 if there is none
        i == IF \E k \in DOMAIN annotations : annotations[k].id = annotation_data.id
             THEN CHOOSE k \in DOMAIN annotations :
                    /\ annotations[k].id = annotation_data.id
                    /\ \A j \in DOMAIN annotations :
                          annotations[j].id = annotation_data.id => k <= j
             ELSE 0
    IN  SortById(IF i # 0 THEN SetAt(annotations, i, annotation_data)
                 ELSE Append(annotations, annotation_data))

\* save_annotation(annotator_id, annotation_data): the files after
SaveAnnotation(files, annotator_id, annotation_data) ==
    [files EXCEPT ![annotator_id] = Upsert(LoadAnnotations(files, annotator_id), annotation_data)]

\* config['annotator_names'][ann_id]
AnnotatorName(ann_id) == "annotator" \o Str(ann_id)

\* ------------------------------------------------------------- /api/annotate
TopFields == {"annotator_id", "item", "annotation"}
ItemFields == {"id", "sentence", "tokens", "model_prediction"}

\* the answer of api_annotate to the JSON body req, and the files after:
\* 400 from the check "annotator_id is None or item is None or annotation is
\* None", 500 from "except Exception" for the KeyError of item['id'],
\* item['sentence'], item['tokens'] or item['model_prediction']
ApiAnnotateResult(req, files, now) ==
    IF ~(TopFields \subseteq DOMAIN req) THEN [status |-> 400, files |-> files]
    ELSE IF ~(ItemFields \subseteq DOMAIN req.item) THEN [status |-> 500, files |-> files]
    ELSE LET annotation == [f \in DOMAIN req.annotation \cup {"annotated_at"} |->
                                IF f = "annotated_at" THEN now ELSE req.annotation[f]]
             annotation_record ==
                [id |-> req.item.id, sentence |-> req.item.sentence, tokens |-> req.item.tokens,
                 model_prediction |-> req.item.model_prediction, annotation |-> annotation]
         IN  [status |-> 200, files |-> SaveAnnotation(files, req.annotator_id, annotation_record)]

\* --------------------------------------------------------- resolve_overlap_item
\* Counter(values).most_common(1)[0]: the value with the highest count, the
\* first encountered among the ties; (None, 0) for no values
CountOf(values, v) == Cardinality({i \in DOMAIN values : values[i] = v})

MostCommon(values, default) ==
    IF values = <<>> THEN <<default, 0>>
    ELSE LET best == CHOOSE i \in DOMAIN values :
                        /\ \A j \in DOMAIN values : CountOf(values, values[j]) <= CountOf(values, values[i])
                        /\ \A j \in DOMAIN values :
                              CountOf(values, values[j]) = CountOf(values, values[i]) => i <= j
         IN  <<values[best], CountOf(values, values[best])>>

\* HasMajority with >= for >
HasMajorityOrHalf(majority_votes, total_votes) == 2 * majority_votes >= total_votes

\* "majority_votes > total_votes / 2"
HasMajority(majority_votes, total_votes) == 2 * majority_votes > total_votes

\* tuple(sorted(a['annotation'].get('trigger_indices', [])))
SortedTrigger(a) == SortedInts(Get(a.annotation, "trigger_indices", <<>>))

\* resolve_overlap_item(item_data, annotations)
ResolveOverlapItem(item_data, annotations) ==
    LET event_types == [i \in DOMAIN annotations |-> Get(annotations[i].annotation, "event_type", None)]
        most_common_type == MostCommon(event_types, None)
        total_votes == Len(annotations)
        majority_votes == most_common_type[2]
        most_common_trigger ==
            MostCommon([i \in DOMAIN annotations |-> SortedTrigger(annotations[i])], <<>>)
    IN  [id |-> item_data.id, sentence |-> item_data.sentence, tokens |-> item_data.tokens,
         model_prediction |-> item_data.model_prediction,
         annotation |->
            [event_type |-> most_common_type[1],
             trigger_indices |-> most_common_trigger[1],
             not_in_list |-> /\ most_common_type[1] = None
                             /\ \E i \in DOMAIN annotations :
                                    Get(annotations[i].annotation, "not_in_list", FALSE)],
         resolution_status |->
            IF HasMajority(majority_votes, total_votes) THEN "majority_vote" ELSE "needs_adjudication",
         annotator_votes |->
            [i \in DOMAIN annotations |->
                [annotator |-> annotations[i].annotator_name,
                 event_type |-> Get(annotations[i].annotation, "event_type", None),
                 trigger_indices |-> Get(annotations[i].annotation, "trigger_indices", <<>>)]],
         agreement_ratio |-> Str(majority_votes) \o "/" \o Str(total_votes)]

\* ------------------------------------------------------------ merge_annotations
RECURSIVE AnnotationsOfItem(_, _, _, _)
\* all_annotations[item_id]: for ann_id in range(num_annotators), for every
\* record of that annotator with this id and an 'annotation' key
AnnotationsOfItem(files, ann_id, num_annotators, item_id) ==
    IF ann_id >= num_annotators THEN <<>>
    ELSE LET anns == LoadAnnotations(files, ann_id)
             mine == SelectSeq(anns, LAMBDA rec : rec.id = item_id /\ "annotation" \in DOMAIN rec)
         IN  [i \in DOMAIN mine |->
                [annotator_id |-> ann_id, annotator_name |-> AnnotatorName(ann_id),
                 annotation |-> mine[i].annotation]]
             \o AnnotationsOfItem(files, ann_id + 1, num_annotators, item_id)

\* the ids of data_by_id in its iteration order: first occurrence of each id
RECURSIVE DistinctIds(_, _)
DistinctIds(data, seen) ==
    IF data = <<>> THEN <<>>
    ELSE IF Head(data).id \in seen THEN DistinctIds(Tail(data), seen)
    ELSE <<Head(data).id>> \o DistinctIds(Tail(data), seen \cup {Head(data).id})

RECURSIVE MergeLoop(_, _, _, _, _, _)
\* the loop over data_by_id.items(); overlap selects which of the two lists
MergeLoop(ids, data, files, num_annotators, overlap_item_ids, overlap) ==
    IF ids = <<>> THEN <<>>
    ELSE LET item_id == Head(ids)
             anns == AnnotationsOfItem(files, 0, num_annotators, item_id)
             rest == MergeLoop(Tail(ids), data, files, num_annotators, overlap_item_ids, overlap)
             \* the merged_unique entry: the annotation is anns[0]['annotation']
             UniqueItem(item_data) ==
                [id |-> item_data.id, sentence |-> item_data.sentence,
                 tokens |-> item_data.tokens, model_prediction |-> item_data.model_prediction,
                 annotation |-> anns[1].annotation, annotated_by |-> anns[1].annotator_name]
         IN  IF anns = <<>> \/ (InList(item_id, overlap_item_ids) # overlap) THEN rest
             ELSE IF overlap THEN <<ResolveOverlapItem(ById(data, item_id), anns)>> \o rest
             ELSE <<UniqueItem(ById(data, item_id))>> \o rest

\* merge_annotations(): the two lists, and the plan file and generator after
MergeAnnotations(pf, cfg, data, files, r, now) ==
    LET \* the body after "metadata = ensure_split_metadata()"
        MergeWith(e) ==
            [merged_unique |->
                MergeLoop(DistinctIds(data, {}), data, files, cfg.num_annotators,
                          e.metadata.overlap_item_ids, FALSE),
             merged_overlap |->
                MergeLoop(DistinctIds(data, {}), data, files, cfg.num_annotators,
                          e.metadata.overlap_item_ids, TRUE),
             metadata |-> e.metadata, planFile |-> e.planFile, rng |-> e.rng]
    IN  MergeWith(EnsureSplitMetadata(pf, cfg, data, r, now))

\* -------------------------------------------------------- calculate_cohen_kappa
\* A metric is [defined |-> FALSE] (None) or [defined |-> TRUE, milli |-> m],
\* the number m / 1000.
Undefined == [defined |-> FALSE]
Milli(m) == [defined |-> TRUE, milli |-> m]

RECURSIVE SumOver(_, _)
\* sum of f[x] for x in S
SumOver(S, f) ==
    IF S = {} THEN 0
    ELSE LET x == CHOOSE y \in S : TRUE IN f[x] + SumOver(S \ {x}, f)

\* {a['id'] for a in annotations if 'annotation' in a}
AnnotatedIds(annotations) ==
    {annotations[i].id : i \in {j \in DOMAIN annotations : "annotation" \in DOMAIN annotations[j]}}

\* ----------------------------------------------------------- Python floats
\* A Python float is an IEEE 754 binary64 number.  int / int, float * float,
\* float + float, float - float and float / float return the exact result
\* rounded to MantissaBits significant bits, ties to the even mantissa;
\* round(x, 3) rounds the exact value of x to thousandths, ties to even.
\* Natural numbers of any size are little-endian sequences of limbs in
\* 0..(LimbBase - 1) whose last limb is not 0; <<>> is 0.
LimbBits == 14
LimbBase == 2^LimbBits
MantissaBits == 53
\* bits kept below the quotient of a division before it is rounded
GuardBits == 70

RECURSIVE BigTrim(_)
BigTrim(a) == IF a # <<>> /\ a[Len(a)] = 0 THEN BigTrim(SubSeq(a, 1, Len(a) - 1)) ELSE a

RECURSIVE BigOfInt(_)
BigOfInt(n) == IF n = 0 THEN <<>> ELSE <<n % LimbBase>> \o BigOfInt(n \div LimbBase)

Limb(a, i) == IF i \in DOMAIN a THEN a[i] ELSE 0

\* 1, 0 or -1 as a > b, a = b or a < b
BigCmp(a, b) ==
    LET RECURSIVE From(_)
        From(i) ==
            IF i = 0 THEN 0
            ELSE IF Limb(a, i) > Limb(b, i) THEN 1
            ELSE IF Limb(a, i) < Limb(b, i) THEN -1
            ELSE From(i - 1)
    IN  From(Max(Len(a), Len(b)))

BigAdd(a, b) ==
    LET RECURSIVE From(_, _)
        From(i, carry) ==
            IF i > Len(a) /\ i > Len(b) THEN (IF carry = 0 THEN <<>> ELSE <<carry>>)
            ELSE <<(Limb(a, i) + Limb(b, i) + carry) % LimbBase>>
                    \o From(i + 1, (Limb(a, i) + Limb(b, i) + carry) \div LimbBase)
    IN  From(1, 0)

\* a - b for a >= b
BigSub(a, b) ==
    LET RECURSIVE From(_, _)
        From(i, borrow) ==
            IF i > Len(a) THEN <<>>
            ELSE IF Limb(a, i) - Limb(b, i) - borrow < 0
                 THEN <<Limb(a, i) - Limb(b, i) - borrow + LimbBase>> \o From(i + 1, 1)
                 ELSE <<Limb(a, i) - Limb(b, i) - borrow>> \o From(i + 1, 0)
    IN  BigTrim(From(1, 0))

\* a * k for 0 <= k < LimbBase
BigMulSmall(a, k) ==
    LET RECURSIVE From(_, _)
        From(i, carry) ==
            IF i > Len(a) THEN BigOfInt(carry)
            ELSE <<(a[i] * k + carry) % LimbBase>> \o From(i + 1, (a[i] * k + carry) \div LimbBase)
    IN  BigTrim(From(1, 0))

RECURSIVE BigMul(_, _)
BigMul(a, b) ==
    IF b = <<>> THEN <<>>
    ELSE BigTrim(BigAdd(BigMulSmall(a, b[1]), <<0>> \o BigMul(a, Tail(b))))

\* a * 2^bits
BigShl(a, bits) ==
    IF a = <<>> THEN <<>>
    ELSE [i \in 1..(bits \div LimbBits) |-> 0] \o BigMulSmall(a, 2^(bits % LimbBits))

\* a \div 2^bits
BigShr(a, bits) ==
    LET w == bits \div LimbBits
        r == bits % LimbBits
    IN  BigTrim([i \in 1..Max(Len(a) - w, 0) |->
                    (a[i + w] \div 2^r) + (Limb(a, i + w + 1) % 2^r) * 2^(LimbBits - r)])

\* the number of bits of a
BigBitLength(a) ==
    LET RECURSIVE Bits(_)
        Bits(n) == IF n = 0 THEN 0 ELSE 1 + Bits(n \div 2)
    IN  IF a = <<>> THEN 0 ELSE (Len(a) - 1) * LimbBits + Bits(a[Len(a)])

\* a \div 2^bits rounded to the nearest integer, ties to even; sticky says
\* that the number a stands for is a little more than a
BigShrRound(a, bits, sticky) ==
    LET q == BigShr(a, bits)
        c == BigCmp(BigSub(a, BigShl(q, bits)), BigShl(<<1>>, bits - 1))
    IN  IF c > 0 \/ (c = 0 /\ (sticky \/ Limb(q, 1) % 2 = 1)) THEN BigAdd(q, <<1>>) ELSE q

\* A float is [sign, man, exp], the number sign * man * 2^exp, with man of
\* exactly MantissaBits bits, or man = <<>> for 0.0
FloatZero == [sign |-> 1, man |-> <<>>, exp |-> 0]
FloatOne == [sign |-> 1, man |-> BigShl(<<1>>, MantissaBits - 1), exp |-> 1 - MantissaBits]

\* the float nearest to sign * n * 2^e (to a little more than n if sticky)
FloatRound(sign, n, e, sticky) ==
    LET \* the float of a rounded mantissa r of MantissaBits or MantissaBits + 1 bits
        OfRounded(r, re) ==
            IF BigBitLength(r) > MantissaBits
            THEN [sign |-> sign, man |-> BigShr(r, 1), exp |-> re + 1]
            ELSE [sign |-> sign, man |-> r, exp |-> re]
        OfLength(len) ==
            IF len <= MantissaBits
            THEN [sign |-> sign, man |-> BigShl(n, MantissaBits - len),
                  exp |-> e - (MantissaBits - len)]
            ELSE OfRounded(BigShrRound(n, len - MantissaBits, sticky), e + len - MantissaBits)
    IN  IF n = <<>> THEN FloatZero ELSE OfLength(BigBitLength(n))

\* the float of sign * (d.q + a little if d.r # 0) * 2^(e - GuardBits)
FloatOfQuotient(sign, d, e) == FloatRound(sign, BigTrim(d.q), e - GuardBits, d.r # 0)

\* c / n for ints 0 <= c and 0 < n < LimbBase
FloatOfRatio(c, n) ==
    LET \* c * 2^GuardBits
        a == BigShl(BigOfInt(c), GuardBits)
        RECURSIVE DivFrom(_, _)
        \* limbs 1..i of a, with rem carried in from above, divided by n
        DivFrom(i, rem) ==
            IF i = 0 THEN [q |-> <<>>, r |-> rem]
            ELSE LET rest == DivFrom(i - 1, (rem * LimbBase + a[i]) % n)
                 IN  [q |-> Append(rest.q, (rem * LimbBase + a[i]) \div n), r |-> rest.r]
    IN  IF c = 0 THEN FloatZero ELSE FloatOfQuotient(1, DivFrom(Len(a), 0), 0)

FloatMul(x, y) ==
    IF x.man = <<>> \/ y.man = <<>> THEN FloatZero
    ELSE FloatRound(x.sign * y.sign, BigMul(x.man, y.man), x.exp + y.exp, FALSE)

FloatAdd(x, y) ==
    LET \* x.sign * a * 2^e + y.sign * b * 2^e
        Aligned(a, b, e) ==
            IF x.sign = y.sign THEN FloatRound(x.sign, BigAdd(a, b), e, FALSE)
            ELSE IF BigCmp(a, b) >= 0 THEN FloatRound(x.sign, BigSub(a, b), e, FALSE)
            ELSE FloatRound(y.sign, BigSub(b, a), e, FALSE)
    IN  IF x.man = <<>> THEN y
        ELSE IF y.man = <<>> THEN x
        ELSE Aligned(BigShl(x.man, x.exp - Min(x.exp, y.exp)),
                     BigShl(y.man, y.exp - Min(x.exp, y.exp)), Min(x.exp, y.exp))

FloatSub(x, y) == FloatAdd(x, [y EXCEPT !.sign = -y.sign])

\* x / y for y # 0
FloatDiv(x, y) ==
    LET d == y.man
        RECURSIVE DivLimb(_, _, _)
        \* k more bits of the limb q of the quotient, the division having left rem < d
        DivLimb(rem, k, q) ==
            IF k = 0 THEN [q |-> q, r |-> rem]
            ELSE LET twice == BigShl(rem, 1)
                 IN  IF BigCmp(twice, d) >= 0
                     THEN DivLimb(BigSub(twice, d), k - 1, 2 * q + 1)
                     ELSE DivLimb(twice, k - 1, 2 * q)
        RECURSIVE DivLimbs(_, _)
        \* the next count limbs of the quotient, and whether a remainder is left
        DivLimbs(rem, count) ==
            IF count = 0 THEN [q |-> <<>>, r |-> Len(rem)]
            ELSE LET limb == DivLimb(rem, LimbBits, 0)
                     rest == DivLimbs(limb.r, count - 1)
                 IN  [q |-> Append(rest.q, limb.q), r |-> rest.r]
        \* x.man * 2^GuardBits divided by d
        Quotient ==
            IF BigCmp(x.man, d) >= 0
            THEN [DivLimbs(BigSub(x.man, d), GuardBits \div LimbBits) EXCEPT !.q = Append(@, 1)]
            ELSE DivLimbs(x.man, GuardBits \div LimbBits)
    IN  IF x.man = <<>> THEN FloatZero
        ELSE FloatOfQuotient(x.sign * y.sign, Quotient, x.exp - y.exp)

\* round(x, ndigits) * scale, an integer, for scale = 10^ndigits and
\* |x| < 2^(MantissaBits - 1): the exact value of x in units of 1 / scale,
\* rounded to the nearest integer, ties to even
RoundTo(x, scale) ==
    LET RECURSIVE ToInt(_)
        ToInt(a) == IF a = <<>> THEN 0 ELSE a[1] + LimbBase * ToInt(Tail(a))
    IN  IF x.man = <<>> THEN 0
        ELSE x.sign * ToInt(BigShrRound(BigMulSmall(x.man, scale), -x.exp, FALSE))

\* round(x, 3) in thousandths
RoundToMilli(x) == RoundTo(x, 1000)

\* float(k) for an int 0 <= k < LimbBase
FloatOfInt(k) == FloatOfRatio(k, 1)

\* fabs(x) >= fabs(y)
FloatAbsGe(x, y) ==
    IF y.man = <<>> THEN TRUE
    ELSE IF x.man = <<>> THEN FALSE
    ELSE IF x.exp # y.exp THEN x.exp > y.exp
    ELSE BigCmp(x.man, y.man) >= 0

RECURSIVE FloatSumPlain(_, _)
\* the first k of xs added from left to right
FloatSumPlain(xs, k) == IF k = 0 THEN FloatZero ELSE FloatAdd(FloatSumPlain(xs, k - 1), xs[k])

\* one step of the compensated summation: t = f_result + x, then
\* c += (f_result - t) + x if fabs(f_result) >= fabs(x), else c += (x - t) + f_result
FloatSumStep(acc, x, t) ==
    [total |-> t,
     c |-> FloatAdd(acc.c,
                    FloatAdd(FloatSub(IF FloatAbsGe(acc.total, x) THEN acc.total ELSE x, t),
                             IF FloatAbsGe(acc.total, x) THEN x ELSE acc.total))]

RECURSIVE FloatSumCompensated(_, _)
\* f_result (total) and c after the first k of xs
FloatSumCompensated(xs, k) ==
    IF k = 0 THEN [total |-> FloatZero, c |-> FloatZero]
    ELSE LET Added(acc) == FloatSumStep(acc, xs[k], FloatAdd(acc.total, xs[k]))
         IN  Added(FloatSumCompensated(xs, k - 1))

\* sum(xs) for a list or generator of floats.  The builtin adds from left
\* to right; from Python 3.12 on it also carries the rounding errors of the
\* additions in a second float (Neumaier's summation) and adds them at the
\* end.  compensated says which of the two the interpreter does.
FloatSum(xs, compensated) ==
    LET Finish(acc) == IF acc.c.man # <<>> THEN FloatAdd(acc.total, acc.c) ELSE acc.total
    IN  IF compensated THEN Finish(FloatSumCompensated(xs, Len(xs)))
        ELSE FloatSumPlain(xs, Len(xs))

\* ---------------------------------------------- calculate_cohen_kappa, the rest
\* the permutations of a finite set, as sequences: the lists that
\* list(<a set>) can return, the iteration order of a set of str (and None)
\* following the hashes, which differ from one process to the next, and the
\* order of insertion
ListsOfSet(S) ==
    {l \in [1..Cardinality(S) -> S] : \A x \in S : \E i \in DOMAIN l : l[i] = x}

\* the common ids of two lists and the values the annotators gave them
KappaValues(annotations1, annotations2) ==
    LET common_ids == AnnotatedIds(annotations1) \cap AnnotatedIds(annotations2)
        \* {a['id']: a['annotation'].get(key) for a in annotations if a['id'] in
        \*  common_ids and 'annotation' in a}: the last record of an id wins
        ValuesById(annotations) ==
            [id \in common_ids |->
                LET last == CHOOSE i \in DOMAIN annotations :
                                /\ annotations[i].id = id /\ "annotation" \in DOMAIN annotations[i]
                                /\ \A j \in DOMAIN annotations :
                                      (/\ annotations[j].id = id
                                       /\ "annotation" \in DOMAIN annotations[j]) => j <= i
                IN  Get(annotations[last].annotation, "event_type", None)]
    IN  [common_ids |-> common_ids,
         values1 |-> ValuesById(annotations1), values2 |-> ValuesById(annotations2)]

\* set(values1.values()) | set(values2.values())
KappaValueSet(annotations1, annotations2) ==
    Range(KappaValues(annotations1, annotations2).values1)
        \cup Range(KappaValues(annotations1, annotations2).values2)

\* calculate_cohen_kappa(annotations1, annotations2, key='event_type'), where
\* all_values is what list(set(...) | set(...)) returns in the call
CalculateCohenKappa(annotations1, annotations2, all_values) ==
    LET \* sum(1 for v in values.values() if v == val)
        TimesValue(values, val) == Cardinality({id \in DOMAIN values : values[id] = val})
        RECURSIVE ExpectedAgreement(_, _, _)
        \* pe after the first k values of all_values
        ExpectedAgreement(v, n, k) ==
            IF k = 0 THEN FloatZero
            ELSE FloatAdd(ExpectedAgreement(v, n, k - 1),
                          FloatMul(FloatOfRatio(TimesValue(v.values1, all_values[k]), n),
                                   FloatOfRatio(TimesValue(v.values2, all_values[k]), n)))
        \* the end of the function, from po and pe
        KappaOf(po, pe) ==
            IF pe = FloatOne THEN Milli(1000)
            ELSE Milli(RoundToMilli(FloatDiv(FloatSub(po, pe), FloatSub(FloatOne, pe))))
        \* the function from "agreements = ..." on
        OfValues(v) ==
            KappaOf(FloatOfRatio(Cardinality({id \in v.common_ids : v.values1[id] = v.values2[id]}),
                                 Cardinality(v.common_ids)),
                    ExpectedAgreement(v, Cardinality(v.common_ids), Len(all_values)))
    IN  IF annotations1 = <<>> \/ annotations2 = <<>> THEN Undefined
        ELSE IF Cardinality(AnnotatedIds(annotations1) \cap AnnotatedIds(annotations2)) < 2
             THEN Undefined
             ELSE OfValues(KappaValues(annotations1, annotations2))

\* ------------------------------------------------------- calculate_fleiss_kappa
\* sorted(list(categories)) for the event types of this model; str compares
\* by code point
EventTypeOrder == <<"A", "B">>

\* CalculateFleissKappa that asks for one category where the code asks for two
CalculateFleissKappaOneCategory(all_annotations, compensated) ==
    LET items_with_multi == SelectSeq(all_annotations, LAMBDA kv : Len(kv[2]) >= 2)
        ValueOf(k, i) == Get(items_with_multi[k][2][i].annotation, "event_type", None)
        \* "if val": None and the empty string are not categories
        found == {v \in UNION {{ValueOf(k, i) : i \in DOMAIN items_with_multi[k][2]} :
                                    k \in DOMAIN items_with_multi} : v # None /\ v # ""}
        categories == SelectSeq(EventTypeOrder, LAMBDA v : v \in found)
        \* matrix[k][j]: the number of ratings of the k-th item in the j-th category
        matrix == [k \in DOMAIN items_with_multi |->
                     [j \in DOMAIN categories |->
                        Cardinality({i \in DOMAIN items_with_multi[k][2] :
                                        ValueOf(k, i) = categories[j]})]]
        RowSum(k) == SumOver(DOMAIN categories, matrix[k])
        RowSquares(k) ==
            SumOver(DOMAIN categories, [j \in DOMAIN categories |-> matrix[k][j] * matrix[k][j]])
        \* the rows that are not skipped with "if n_i < 2: continue"
        rated == SelectSeq([k \in DOMAIN matrix |-> k], LAMBDA k : RowSum(k) >= 2)
        P_i == [r \in DOMAIN rated |->
                   FloatOfRatio(RowSquares(rated[r]) - RowSum(rated[r]),
                                RowSum(rated[r]) * (RowSum(rated[r]) - 1))]
        total_ratings == SumOver(DOMAIN matrix, [k \in DOMAIN matrix |-> RowSum(k)])
        ColSum(j) == SumOver(DOMAIN matrix, [k \in DOMAIN matrix |-> matrix[k][j]])
        Square(p) == FloatMul(p, p)
        \* p * p for p in p_j
        squares == [j \in DOMAIN categories |-> Square(FloatOfRatio(ColSum(j), total_ratings))]
        \* the end of the function, from P_bar and P_e
        KappaOf(P_bar, P_e) ==
            IF P_e = FloatOne THEN Milli(1000)
            ELSE Milli(RoundToMilli(FloatDiv(FloatSub(P_bar, P_e), FloatSub(FloatOne, P_e))))
    IN  IF items_with_multi = <<>> THEN Undefined
        ELSE IF Cardinality(found) < 1 THEN Undefined
        ELSE IF \A k \in DOMAIN matrix : RowSum(k) < 2 THEN Undefined
        ELSE KappaOf(FloatDiv(FloatSum(P_i, compensated), FloatOfInt(Len(rated))),
                     FloatSum(squares, compensated))

\* calculate_fleiss_kappa(all_annotations, key='event_type'); all_annotations
\* is a dict from item ids to lists of [annotator_id, annotator_name, annotation]
CalculateFleissKappa(all_annotations, compensated) ==
    LET items_with_multi == SelectSeq(all_annotations, LAMBDA kv : Len(kv[2]) >= 2)
        ValueOf(k, i) == Get(items_with_multi[k][2][i].annotation, "event_type", None)
        \* "if val": None and the empty string are not categories
        found == {v \in UNION {{ValueOf(k, i) : i \in DOMAIN items_with_multi[k][2]} :
                                    k \in DOMAIN items_with_multi} : v # None /\ v # ""}
        categories == SelectSeq(EventTypeOrder, LAMBDA v : v \in found)
        \* matrix[k][j]: the number of ratings of the k-th item in the j-th category
        matrix == [k \in DOMAIN items_with_multi |->
                     [j \in DOMAIN categories |->
                        Cardinality({i \in DOMAIN items_with_multi[k][2] :
                                        ValueOf(k, i) = categories[j]})]]
        RowSum(k) == SumOver(DOMAIN categories, matrix[k])
        RowSquares(k) ==
            SumOver(DOMAIN categories, [j \in DOMAIN categories |-> matrix[k][j] * matrix[k][j]])
        \* the rows that are not skipped with "if n_i < 2: continue"
        rated == SelectSeq([k \in DOMAIN matrix |-> k], LAMBDA k : RowSum(k) >= 2)
        P_i == [r \in DOMAIN rated |->
                   FloatOfRatio(RowSquares(rated[r]) - RowSum(rated[r]),
                                RowSum(rated[r]) * (RowSum(rated[r]) - 1))]
        total_ratings == SumOver(DOMAIN matrix, [k \in DOMAIN matrix |-> RowSum(k)])
        ColSum(j) == SumOver(DOMAIN matrix, [k \in DOMAIN matrix |-> matrix[k][j]])
        Square(p) == FloatMul(p, p)
        \* p * p for p in p_j
        squares == [j \in DOMAIN categories |-> Square(FloatOfRatio(ColSum(j), total_ratings))]
        \* the end of the function, from P_bar and P_e
        KappaOf(P_bar, P_e) ==
            IF P_e = FloatOne THEN Milli(1000)
            ELSE Milli(RoundToMilli(FloatDiv(FloatSub(P_bar, P_e), FloatSub(FloatOne, P_e))))
    IN  IF items_with_multi = <<>> THEN Undefined
        ELSE IF Cardinality(found) < 2 THEN Undefined
        ELSE IF \A k \in DOMAIN matrix : RowSum(k) < 2 THEN Undefined
        ELSE KappaOf(FloatDiv(FloatSum(P_i, compensated), FloatOfInt(Len(rated))),
                     FloatSum(squares, compensated))

\* -------------------------------------------------------- calculate_trigger_f1
\* the record of an id in {a['id']: a for a in annotations}: the last one
LastOfId(annotations, id) ==
    annotations[CHOOSE i \in DOMAIN annotations :
                    /\ annotations[i].id = id
                    /\ \A j \in DOMAIN annotations : annotations[j].id = id => j <= i]

\* calculate_trigger_f1(annotations1, annotations2).  The loop goes through
\* the set common_ids in ascending order, the iteration order of a set of
\* ints that are smaller than its table (8 slots or more).
CalculateTriggerF1(annotations1, annotations2) ==
    LET RECURSIVE Ascending(_)
        Ascending(S) ==
            IF S = {} THEN <<>>
            ELSE LET least == CHOOSE x \in S : \A y \in S : x <= y
                 IN  <<least>> \o Ascending(S \ {least})
        common_ids == Ascending(AnnotatedIds(annotations1) \cap AnnotatedIds(annotations2))
        TriggerSet(rec) == Range(Get(rec.annotation, "trigger_indices", <<>>))
        T1(id) == TriggerSet(LastOfId(annotations1, id))
        T2(id) == TriggerSet(LastOfId(annotations2, id))
        \* what the loop body adds to total_precision (mine = triggers1) or
        \* to total_recall (mine = triggers2)
        Part(id, mine) ==
            IF T1(id) = {} /\ T2(id) = {} THEN FloatOne
            ELSE IF T1(id) # {} /\ T2(id) # {}
                 THEN FloatOfRatio(Cardinality(T1(id) \cap T2(id)), Cardinality(mine))
                 ELSE FloatZero
        RECURSIVE Total(_, _)
        \* total_precision (of = 1) or total_recall (of = 2) after k ids
        Total(k, of) ==
            IF k = 0 THEN FloatZero
            ELSE FloatAdd(Total(k - 1, of),
                          Part(common_ids[k], IF of = 1 THEN T1(common_ids[k]) ELSE T2(common_ids[k])))
        \* the end of the function, from the product and the sum of the averages
        F1Of(product, both) ==
            IF both.man = <<>> THEN Milli(0)
            ELSE Milli(RoundToMilli(FloatDiv(FloatMul(FloatOfInt(2), product), both)))
        \* avg[1] is avg_precision, avg[2] is avg_recall
        OfAverages(avg) == F1Of(FloatMul(avg[1], avg[2]), FloatAdd(avg[1], avg[2]))
        Averages(count) ==
            OfAverages([of \in 1..2 |-> FloatDiv(Total(count, of), FloatOfInt(count))])
    IN  IF annotations1 = <<>> \/ annotations2 = <<>> THEN Undefined
        ELSE IF common_ids = <<>> THEN Undefined
        ELSE Averages(Len(common_ids))

\* ------------------------------------------------------------- get_iaa_metrics
AnnotatorPairs(num_annotators) ==
    {p \in (0..(num_annotators - 1)) \X (0..(num_annotators - 1)) : p[1] < p[2]}

\* the lists that list(set(...) | set(...)) can return in the calls of
\* calculate_cohen_kappa that get_iaa_metrics makes, one for each pair
KappaLists(cfg, files) ==
    LET ListsOf(p) == ListsOfSet(KappaValueSet(LoadAnnotations(files, p[1]),
                                               LoadAnnotations(files, p[2])))
    IN  {lists \in [AnnotatorPairs(cfg.num_annotators) ->
                        UNION {ListsOf(p) : p \in AnnotatorPairs(cfg.num_annotators)}] :
            \A p \in AnnotatorPairs(cfg.num_annotators) : lists[p] \in ListsOf(p)}

\* all_item_annotations of get_iaa_metrics: a dict from the overlap item ids
\* that have annotations to their annotations, the keys in the order of
\* their first append
OverlapAnnotations(cfg, files, overlap_item_ids) ==
    LET RECURSIVE RecordsFrom(_)
        \* the records the loops over the annotators and their files append
        \* for, from annotator ann_id on
        RecordsFrom(ann_id) ==
            IF ann_id >= cfg.num_annotators THEN <<>>
            ELSE SelectSeq(LoadAnnotations(files, ann_id),
                           LAMBDA ann : /\ InList(ann.id, overlap_item_ids)
                                        /\ "annotation" \in DOMAIN ann)
                    \o RecordsFrom(ann_id + 1)
        DictOf(keys) ==
            [k \in DOMAIN keys |->
                <<keys[k], AnnotationsOfItem(files, 0, cfg.num_annotators, keys[k])>>]
    IN  DictOf(DistinctIds(RecordsFrom(0), {}))

\* the disagreements list of get_iaa_metrics
Disagreements(all_item_annotations) ==
    LET \* the items with two or more annotations, in dict order
        multi == SelectSeq(all_item_annotations, LAMBDA kv : Len(kv[2]) >= 2)
        Entry(item_id, anns) ==
            [item_id |-> item_id, annotations |-> anns,
             event_type_disagreement |->
                Cardinality({Get(anns[i].annotation, "event_type", None) : i \in DOMAIN anns}) > 1,
             trigger_disagreement |->
                Cardinality({SortedTrigger(anns[i]) : i \in DOMAIN anns}) > 1]
    IN  SelectSeq([k \in DOMAIN multi |-> Entry(multi[k][1], multi[k][2])],
                  LAMBDA d : d.event_type_disagreement \/ d.trigger_disagreement)

\* the dict get_iaa_metrics returns, from all_item_annotations; lists[p] is
\* the all_values list of the calculate_cohen_kappa call of pair p,
\* compensated the way the interpreter's sum() adds floats
IaaMetrics(cfg, files, overlap_item_ids, all_item_annotations, lists, compensated) ==
    LET \* "if kappa is not None" / "if f1 is not None": the defined entries
        DefinedOnly(m) == [p \in {q \in DOMAIN m : m[q].defined} |-> m[p]]
    IN  [fleiss_kappa |-> CalculateFleissKappa(all_item_annotations, compensated),
         pairwise_cohen_kappa |->
            DefinedOnly([p \in AnnotatorPairs(cfg.num_annotators) |->
                            CalculateCohenKappa(LoadAnnotations(files, p[1]),
                                                LoadAnnotations(files, p[2]), lists[p])]),
         pairwise_trigger_f1 |->
            DefinedOnly([p \in AnnotatorPairs(cfg.num_annotators) |->
                            CalculateTriggerF1(LoadAnnotations(files, p[1]),
                                               LoadAnnotations(files, p[2]))]),
         disagreements |-> Disagreements(all_item_annotations),
         overlap_items_count |-> Len(overlap_item_ids),
         annotated_overlap_count |-> Len(all_item_annotations)]

\* the body of get_iaa_metrics after "metadata = ensure_split_metadata()", e
\* being what that call returned
IaaMetricsWith(e, cfg, files, lists, compensated) ==
    [metrics |-> IaaMetrics(cfg, files, e.metadata.overlap_item_ids,
                            OverlapAnnotations(cfg, files, e.metadata.overlap_item_ids),
                            lists, compensated),
     metadata |-> e.metadata, planFile |-> e.planFile, rng |-> e.rng]

\* get_iaa_metrics(): the metrics, and the plan file and generator after
GetIaaMetrics(pf, cfg, data, files, r, now, lists, compensated) ==
    IaaMetricsWith(EnsureSplitMetadata(pf, cfg, data, r, now), cfg, files, lists, compensated)

\* ------------------------------------------------------------ state space
\* config.json as the administrator may write it
Configs ==
    [num_annotators : 1..MaxAnnotators,
     iaa_overlap_percent : OverlapPercents,
     overlap_annotators : 0..MaxOverlapAnnotators]

\* input_data.json: items with distinct ids
Inputs == {[i \in 1..n |-> Item(i)] : n \in 0..MaxItems}
            \cup {[i \in 1..n |-> Item(n + 1 - i)] : n \in 2..MaxItems}

\* annotator ids a request can name: one more than any configuration has
RequestAnnotatorIds == 0..MaxAnnotators

NoResp == [op |-> "none"]

\* a thread that serves no request; calls counts the calls it has run
Idle(calls) == [pc |-> "idle", calls |-> calls]

\* The state after start-up, for the given configuration and input: no plan,
\* no annotation files; the generator was seeded from the OS at import.
InitWith(cfgs, inputs, rngs, algos) ==
    /\ config \in cfgs
    /\ inputData \in inputs
    /\ planFile = <<>>
    /\ annFiles = [a \in RequestAnnotatorIds |-> <<>>]
    /\ rng \in rngs
    /\ rngAlgo \in algos
    /\ clock = 0
    /\ resp = NoResp
    /\ prev = NoResp
    /\ threads = [t \in 1..MaxThreads |-> Idle(0)]

\* time passes
Tick ==
    /\ clock < MaxClock
    /\ clock' = clock + 1
    /\ UNCHANGED <<config, inputData, planFile, annFiles, rng, rngAlgo, resp, prev, threads>>

\* ------------------------------------ generate_split_metadata, called directly
\* A call of generate_split_metadata(inputData, config); resp keeps its
\* arguments and result, prev those of the call before.
CallGenerate ==
    LET g == GenerateSplitMetadata(inputData, config, rng, clock)
    IN  /\ resp' = [op |-> "generate", all_data |-> inputData, config |-> config,
                    plan |-> g.plan]
        /\ prev' = resp
        /\ rng' = g.rng
        /\ UNCHANGED <<config, inputData, planFile, annFiles, rngAlgo, clock, threads>>

InitGen == InitWith(Configs, Inputs, 1..(RngMod - 1), 0..MaxRngAlgo)
NextGen == CallGenerate \/ Tick
SpecGen == InitGen /\ [][NextGen]_vars

\* ------------------------------------------------------- claims C1 .. C3
RECURSIVE Flatten(_)
Flatten(ss) == IF ss = <<>> THEN <<>> ELSE Head(ss) \o Flatten(Tail(ss))

Count(x, s) == Cardinality({i \in DOMAIN s : s[i] = x})

\* overlap_item_ids followed by every annotator's unique_assignments list
AllAssigned(plan) ==
    plan.overlap_item_ids
        \o Flatten([i \in DOMAIN plan.unique_assignments |-> plan.unique_assignments[i][2]])

InputIds(all_data) == {all_data[i].id : i \in DOMAIN all_data}

\* C1: in a plan made by generate_split_metadata from items with distinct ids
\* and num_annotators >= 1, every input item id occurs exactly once in
\* overlap_item_ids and the unique_assignments lists together, and nothing
\* else occurs there.
C1_PlanPartitionsItems ==
    resp.op = "generate" =>
        /\ \A id \in InputIds(resp.all_data) : Count(id, AllAssigned(resp.plan)) = 1
        /\ Range(AllAssigned(resp.plan)) \subseteq InputIds(resp.all_data)

C1_Witness ==
    /\ resp.op = "generate"
    /\ Len(resp.plan.overlap_item_ids) >= 1
    /\ Cardinality({i \in DOMAIN resp.plan.unique_assignments :
                        resp.plan.unique_assignments[i][2] # <<>>}) >= 2

SameArguments(a, b) == a.all_data = b.all_data /\ a.config = b.config

\* C3 as stated: two calls of generate_split_metadata with the same items and
\* configuration return plans equal in every field.
C3_IdenticalInEveryField ==
    (resp.op = "generate" /\ prev.op = "generate" /\ SameArguments(resp, prev))
        => resp.plan = prev.plan

WithoutGeneratedAt(plan) ==
    [f \in DOMAIN plan \ {"generated_at"} |-> plan[f]]

\* C3 amended: two calls of generate_split_metadata with the same items and
\* configuration, made at any two moments, return plans equal in every field
\* but generated_at, which is the time of the call.
C3_IdenticalButGeneratedAt ==
    (resp.op = "generate" /\ prev.op = "generate" /\ SameArguments(resp, prev))
        => /\ WithoutGeneratedAt(resp.plan) = WithoutGeneratedAt(prev.plan)
           /\ resp.plan.generated_at >= prev.plan.generated_at

C3_Witness ==
    /\ resp.op = "generate" /\ prev.op = "generate"
    /\ resp.plan.generated_at # prev.plan.generated_at
    /\ Len(resp.plan.overlap_item_ids) >= 1
    /\ Len(resp.all_data) - Len(resp.plan.overlap_item_ids) >= 2

\* ------------------------------------------------------------------ handlers
\* round(completed / total * 100, 1) if total > 0 else 0, in tenths of a percent
Percentage(completed, total) ==
    IF total > 0 THEN RoundTo(FloatMul(FloatOfRatio(completed, total), FloatOfInt(100)), 10)
    ELSE 0

\* len([a for a in annotations if 'annotation' in a])
Completed(annotations) ==
    Cardinality({i \in DOMAIN annotations : "annotation" \in DOMAIN annotations[i]})

\* what a handler does with the value r of the function it called: answer,
\* and leave the plan file and the generator as that function left them
Respond(answer, r) ==
    /\ resp' = answer
    /\ planFile' = r.planFile
    /\ rng' = r.rng
    /\ UNCHANGED <<config, inputData, annFiles, rngAlgo, clock, prev, threads>>

\* GET /api/data/<annotator_id>
ApiData(annotator_id) ==
    LET \* item with item['annotation'] = ann_by_id[item['id']] where there is one
        WithAnnotation(item, annotations) ==
            IF \E i \in DOMAIN annotations : annotations[i].id = item.id
            THEN [f \in DOMAIN item \cup {"annotation"} |->
                    IF f = "annotation"
                    THEN Get(LastOfId(annotations, item.id), "annotation", None)
                    ELSE item[f]]
            ELSE item
        Answer(split, items) ==
            [op |-> "data", status |-> 200, annotator_id |-> annotator_id,
             items |-> items, total |-> Len(items), ensured |-> <<split.metadata>>]
        Response(split, existing) ==
            Respond(Answer(split, [i \in DOMAIN split.items |->
                                      WithAnnotation(split.items[i], existing)]),
                    split)
    IN  Response(GetAnnotatorSplitWithIaa(annotator_id, inputData, planFile, config, rng, clock),
                 LoadAnnotations(annFiles, annotator_id))

\* POST /api/annotate with the JSON body req
ApiAnnotate(req) ==
    /\ annFiles' = ApiAnnotateResult(req, annFiles, clock).files
    /\ resp' = [op |-> "annotate", status |-> ApiAnnotateResult(req, annFiles, clock).status]
    /\ UNCHANGED <<config, inputData, planFile, rng, rngAlgo, clock, prev, threads>>

\* GET /api/progress/<annotator_id>
ApiProgress(annotator_id) ==
    LET Answer(completed, total, metadata) ==
            [op |-> "progress", status |-> 200, annotator_id |-> annotator_id,
             completed |-> completed, total |-> total,
             percentage |-> Percentage(completed, total), ensured |-> <<metadata>>]
        Response(split) ==
            Respond(Answer(Completed(LoadAnnotations(annFiles, annotator_id)),
                           Len(split.items), split.metadata),
                    split)
    IN  Response(GetAnnotatorSplitWithIaa(annotator_id, inputData, planFile, config, rng, clock))

\* GET /api/admin/progress
ApiAdminProgress ==
    LET \* one entry of the progress list
        Row(ann_id, completed, total) ==
            [annotator_id |-> ann_id, name |-> AnnotatorName(ann_id),
             completed |-> completed, total |-> total,
             percentage |-> Percentage(completed, total)]
        \* the entry of annotator ann_id, the plan file being pf when its turn comes
        RowOf(ann_id, pf) ==
            Row(ann_id, Completed(LoadAnnotations(annFiles, ann_id)),
                Len(GetAnnotatorSplitWithIaa(ann_id, inputData, pf, config, rng, clock).items))
        Answer(rows, last) ==
            [op |-> "admin_progress", status |-> 200, annotators |-> rows,
             total_items |-> Len(inputData),
             overlap_items |-> Len(last.metadata.overlap_item_ids),
             unique_items |-> Len(inputData) - Len(last.metadata.overlap_item_ids),
             ensured |-> <<last.metadata>>]
        \* the loop once annotator 0's split (first) is there: the plan exists
        \* from then on, later calls load it, and the generator is left as the
        \* last annotator's shuffle left it
        Response(first) ==
            Respond(Answer([a \in 0..(config.num_annotators - 1) |-> RowOf(a, first.planFile)],
                           first),
                    SplitOf(config.num_annotators - 1, inputData,
                            PlanLoaded(first.planFile, first.rng)))
    IN  Response(GetAnnotatorSplitWithIaa(0, inputData, planFile, config, rng, clock))

\* GET /api/admin/iaa
ApiAdminIaa ==
    LET Answer(m) ==
            [op |-> "iaa", status |-> 200, metrics |-> m.metrics, ensured |-> <<m.metadata>>]
        Response(m) == Respond(Answer(m), m)
    IN  \E lists \in KappaLists(config, annFiles), compensated \in BOOLEAN :
            Response(GetIaaMetrics(planFile, config, inputData, annFiles, rng, clock,
                                   lists, compensated))

\* GET /api/admin/export; the two merged lists are also what the handler
\* writes to annotations/merged_unique.json and merged_overlap.json
ApiAdminExport ==
    LET Answer(m) ==
            [op |-> "export", status |-> 200,
             merged_unique |-> m.merged_unique, merged_overlap |-> m.merged_overlap,
             unique_count |-> Len(m.merged_unique), overlap_count |-> Len(m.merged_overlap),
             ensured |-> <<m.metadata>>]
        Response(m) == Respond(Answer(m), m)
    IN  Response(MergeAnnotations(planFile, config, inputData, annFiles, rng, clock))

\* GET /api/admin/item/<item_id>
ApiAdminItem(item_id) ==
    LET Answer(o) ==
            [op |-> "item", status |-> 200, item_id |-> item_id,
             item |-> ById(inputData, item_id),
             annotations |-> AnnotationsOfItem(annFiles, 0, config.num_annotators, item_id),
             is_overlap |-> o.value, ensured |-> <<o.metadata>>]
        Response(o) == Respond(Answer(o), o)
    IN  IF ~HasId(inputData, item_id)
        THEN /\ resp' = [op |-> "item", status |-> 404, item_id |-> item_id, ensured |-> <<>>]
             /\ UNCHANGED <<config, inputData, planFile, annFiles, rng, rngAlgo, clock, prev, threads>>
        ELSE Response(IsOverlapItem(item_id, planFile, config, inputData, rng, clock))

\* ---------------------------------------------------------------- environment
\* the administrator rewrites config.json
EditConfig(cfg) ==
    /\ cfg # config
    /\ config' = cfg
    /\ resp' = [op |-> "edit_config"]
    /\ UNCHANGED <<inputData, planFile, annFiles, rng, rngAlgo, clock, prev, threads>>

\* the administrator replaces input_data.json
EditInputData(data) ==
    /\ data # inputData
    /\ inputData' = data
    /\ resp' = [op |-> "edit_input"]
    /\ UNCHANGED <<config, planFile, annFiles, rng, rngAlgo, clock, prev, threads>>

\* the administrator deletes split_metadata.json
DeletePlan ==
    /\ FileExists(planFile)
    /\ planFile' = <<>>
    /\ resp' = [op |-> "delete_plan"]
    /\ UNCHANGED <<config, inputData, annFiles, rng, rngAlgo, clock, prev, threads>>

\* ------------------------------------------------- Spec: the life of the plan
\* configurations and inputs the administrator moves between
PlanConfigs ==
    {c \in Configs : /\ c.num_annotators \in {2, MaxAnnotators}
                     /\ c.iaa_overlap_percent \in {50, 100}
                     /\ c.overlap_annotators \in {1, 2}}
PlanInputs == {[i \in 1..n |-> Item(i)] : n \in {MaxItems - 1, MaxItems}}

Init == InitWith(PlanConfigs, PlanInputs, {1}, 0..MaxRngAlgo)

Next ==
    \/ \E a \in RequestAnnotatorIds : ApiData(a)
    \/ \E a \in RequestAnnotatorIds : ApiProgress(a)
    \/ ApiAdminProgress
    \/ ApiAdminIaa
    \/ ApiAdminExport
    \/ \E id \in 1..(MaxItems + 1) : ApiAdminItem(id)
    \/ \E cfg \in PlanConfigs : EditConfig(cfg)
    \/ \E data \in PlanInputs : EditInputData(data)
    \/ DeletePlan

Spec == Init /\ [][Next]_vars

\* ------------------------------------------------------- claims C4, C8
\* the handlers that call ensure_split_metadata answer with what it returned
CalledEnsure(r) == "ensured" \in DOMAIN r /\ r.ensured # <<>>

\* C4: once split_metadata.json exists, every step other than its deletion
\* leaves it as it is, and every handler that calls ensure_split_metadata
\* (data, progress, admin progress, IAA metrics, export, item lookup) gets
\* the persisted plan, whatever config.json and input_data.json have become.
C4_PersistedPlanIsKept ==
    [][(FileExists(planFile) /\ resp'.op # "delete_plan")
            => /\ planFile' = planFile
               /\ CalledEnsure(resp') => resp'.ensured[1] = LoadJson(planFile)]_vars

C4_Witness ==
    /\ FileExists(planFile)
    /\ CalledEnsure(resp)
    /\ resp.op = "export"
    /\ resp.ensured[1] = LoadJson(planFile)
    /\ LoadJson(planFile).config_snapshot.num_annotators # config.num_annotators
    /\ LoadJson(planFile).config_snapshot.iaa_overlap_percent # config.iaa_overlap_percent
    /\ LoadJson(planFile).config_snapshot.overlap_annotators # config.overlap_annotators
    /\ LoadJson(planFile).config_snapshot.total_items # Len(inputData)

\* the item ids the plan gives to an annotator
PlannedIds(plan, annotator_id) ==
    {id \in -1..(MaxItems + 2) :
        \/ \E i \in DOMAIN plan.overlap_assignments :
              /\ plan.overlap_assignments[i][1] = ToString(id)
              /\ \E j \in DOMAIN plan.overlap_assignments[i][2] :
                    plan.overlap_assignments[i][2][j] = annotator_id
        \/ \E i \in DOMAIN plan.unique_assignments :
              /\ plan.unique_assignments[i][1] = ToString(annotator_id)
              /\ \E j \in DOMAIN plan.unique_assignments[i][2] :
                    plan.unique_assignments[i][2][j] = id}

\* C8: the items /api/data gets from get_annotator_split_with_iaa are the
\* live items whose id the persisted plan gives to the annotator (as an
\* overlap item assigned to the annotator or in the annotator's unique list),
\* each once; plan ids without a live item are skipped, and an annotator id
\* outside the plan's range gets the empty list.
C8_SplitIsPlannedLiveItems ==
    resp.op = "data" =>
        LET plan == resp.ensured[1]
            ids == [i \in DOMAIN resp.items |-> resp.items[i].id]
        IN  /\ resp.status = 200
            /\ NoDuplicates(ids)
            /\ Range(ids) = PlannedIds(plan, resp.annotator_id) \cap InputIds(inputData)
            /\ \A i \in DOMAIN resp.items : \E j \in DOMAIN inputData : resp.items[i] = inputData[j]
            /\ resp.annotator_id >= plan.config_snapshot.num_annotators => resp.items = <<>>

\* a stale plan: it names an item that input_data.json no longer has, and the
\* annotator still gets the live ones
C8_Witness ==
    /\ resp.op = "data"
    /\ \E id \in PlannedIds(resp.ensured[1], resp.annotator_id) : id \notin InputIds(inputData)
    /\ Len(resp.items) >= 2
    /\ \E i \in DOMAIN resp.items : InList(resp.items[i].id, resp.ensured[1].overlap_item_ids)
    /\ \E i \in DOMAIN resp.items : ~InList(resp.items[i].id, resp.ensured[1].overlap_item_ids)

\* ------------------------------------- SpecStore: annotating and exporting
\* the annotation of a request, as the page sends it
AnnotationValues ==
    {[event_type |-> "A", trigger_indices |-> <<0>>, not_in_list |-> FALSE],
     [event_type |-> "B", trigger_indices |-> <<1>>, not_in_list |-> FALSE],
     [event_type |-> None, trigger_indices |-> <<>>, not_in_list |-> TRUE]}

StoreConfig == [num_annotators |-> 3, iaa_overlap_percent |-> 50, overlap_annotators |-> 2]
StoreAnnotatorIds == 0..(StoreConfig.num_annotators - 1)
StoreInput == <<Item(1), Item(2)>>

\* well-formed bodies of POST /api/annotate: any annotator, any item
ValidRequests ==
    [annotator_id : StoreAnnotatorIds, item : Range(StoreInput), annotation : AnnotationValues]

\* bodies that lack one required field
MalformedRequests ==
    LET Without(obj, k) == [f \in DOMAIN obj \ {k} |-> obj[f]]
        full == [annotator_id |-> 0, item |-> Item(1),
                 annotation |-> CHOOSE v \in AnnotationValues : v.event_type = "A"]
    IN  {Without(full, k) : k \in TopFields}
            \cup {[full EXCEPT !.item = Without(full.item, k)] : k \in ItemFields}

TotalRecords(files) == SumOver(DOMAIN files, [a \in DOMAIN files |-> Len(files[a])])

InitStore ==
    InitWith({StoreConfig}, {StoreInput}, {1}, 0..MaxRngAlgo)

NextStore ==
    \/ \E req \in ValidRequests : ApiAnnotate(req) /\ TotalRecords(annFiles') <= MaxRecords
    \/ \E req \in MalformedRequests : ApiAnnotate(req)
    \/ ApiAdminExport
    \/ \E annotator_id \in StoreAnnotatorIds : ApiProgress(annotator_id)

SpecStore == InitStore /\ [][NextStore]_vars

\* ------------------------------------------------- claims C5, C6, C7, C9
\* the record /api/annotate builds from a well-formed body
RecordOf(req, now) ==
    [id |-> req.item.id, sentence |-> req.item.sentence, tokens |-> req.item.tokens,
     model_prediction |-> req.item.model_prediction,
     annotation |-> [event_type |-> req.annotation.event_type,
                     trigger_indices |-> req.annotation.trigger_indices,
                     not_in_list |-> req.annotation.not_in_list,
                     annotated_at |-> now]]

RecordsOfId(annotations, id) == {i \in DOMAIN annotations : annotations[i].id = id}

\* C5: after a save for an annotator the annotator's list is sorted by id in
\* ascending order with at most one record per id, the record of the saved
\* id is the one just saved, the records of the other ids are the ones that
\* were there, and the other annotators' lists are as they were.
C5_UpsertKeepsSortedOnePerId ==
    [][\A req \in ValidRequests :
          ApiAnnotate(req) =>
            LET a == req.annotator_id
                before == annFiles[a]
                after == annFiles'[a]
            IN  /\ resp'.status = 200
                /\ IsStrictlySortedInts([i \in DOMAIN after |-> after[i].id])
                /\ \E i \in DOMAIN after : after[i] = RecordOf(req, clock)
                /\ \A i \in DOMAIN after : after[i].id # req.item.id => InList(after[i], before)
                /\ \A i \in DOMAIN before : before[i].id # req.item.id => InList(before[i], after)
                /\ \A b \in DOMAIN annFiles : b # a => annFiles'[b] = annFiles[b]]_vars

\* a list of two records in which the first id was saved last and the second
\* one was saved twice
C5_Witness ==
    \E a \in StoreAnnotatorIds :
        /\ Len(annFiles[a]) = 2
        /\ annFiles[a][1].id = 1 /\ annFiles[a][2].id = 2
        /\ annFiles[a][1].annotation.event_type = "B"
        /\ annFiles[a][2].annotation.event_type = None
        /\ resp.op = "annotate" /\ resp.status = 200

\* the votes for an item: the annotations of annotators 0 .. num_annotators-1, in that order
Votes(item_id) ==
    LET voters == {a \in 0..(config.num_annotators - 1) : RecordsOfId(annFiles[a], item_id) # {}}
        VoteOf(a) == annFiles[a][CHOOSE i \in RecordsOfId(annFiles[a], item_id) : TRUE].annotation.event_type
        RECURSIVE From(_)
        From(a) == IF a >= config.num_annotators THEN <<>>
                   ELSE IF a \in voters THEN <<VoteOf(a)>> \o From(a + 1)
                   ELSE From(a + 1)
    IN  From(0)

FirstVoteFor(votes, v) == CHOOSE i \in DOMAIN votes : votes[i] = v /\ \A j \in 1..(i - 1) : votes[j] # v

\* C6: for every overlap item with at least one annotation the export holds
\* one resolved entry: its event_type has the highest vote count (None being
\* a category) and is the first encountered among the values with that
\* count; resolution_status is majority_vote exactly when twice the winning
\* count exceeds the number of votes, otherwise needs_adjudication; and
\* agreement_ratio reads "<winning count>/<number of votes>".
C6_MajorityVote ==
    resp.op = "export" =>
        \A id \in InputIds(inputData) :
            (InList(id, resp.ensured[1].overlap_item_ids) /\ Votes(id) # <<>>) =>
                LET votes == Votes(id)
                    entries == {i \in DOMAIN resp.merged_overlap : resp.merged_overlap[i].id = id}
                IN  /\ Cardinality(entries) = 1
                    /\ \A i \in entries :
                        LET m == resp.merged_overlap[i]
                            winner == m.annotation.event_type
                            won == Count(winner, votes)
                        IN  /\ won >= 1
                            /\ \A j \in DOMAIN votes : Count(votes[j], votes) <= won
                            /\ \A j \in DOMAIN votes :
                                  Count(votes[j], votes) = won
                                        => FirstVoteFor(votes, winner) <= FirstVoteFor(votes, votes[j])
                            /\ m.resolution_status \in {"majority_vote", "needs_adjudication"}
                            /\ (m.resolution_status = "majority_vote") <=> (2 * won > Len(votes))
                            /\ m.agreement_ratio = ToString(won) \o "/" \o ToString(Len(votes))

\* votes A, A, B: winner A by majority, "2/3"
C6_Witness ==
    /\ resp.op = "export"
    /\ \E i \in DOMAIN resp.merged_overlap :
          /\ Votes(resp.merged_overlap[i].id) = <<"A", "A", "B">>
          /\ resp.merged_overlap[i].annotation.event_type = "A"
          /\ resp.merged_overlap[i].resolution_status = "majority_vote"
          /\ resp.merged_overlap[i].agreement_ratio = "2/3"

\* the annotator whose unique_assignments list holds the item
Holders(plan, id) ==
    {a \in 0..MaxAnnotators :
        \E i \in DOMAIN plan.unique_assignments :
            /\ plan.unique_assignments[i][1] = ToString(a)
            /\ InList(id, plan.unique_assignments[i][2])}

\* C7 as stated: a unique item is in merged_unique exactly when the annotator
\* holding it in unique_assignments has saved an annotation for it; the entry
\* carries that annotator's annotation and name; the item is there at most
\* once and never in merged_overlap.
C7_UniqueItemFromItsHolder ==
    resp.op = "export" =>
        \A id \in InputIds(inputData) :
            ~InList(id, resp.ensured[1].overlap_item_ids) =>
                LET entries == {i \in DOMAIN resp.merged_unique : resp.merged_unique[i].id = id}
                    holders == Holders(resp.ensured[1], id)
                    saved == {a \in holders : RecordsOfId(annFiles[a], id) # {}}
                IN  /\ Cardinality(entries) <= 1
                    /\ \A i \in DOMAIN resp.merged_overlap : resp.merged_overlap[i].id # id
                    /\ (entries # {}) <=> (saved # {})
                    /\ \A i \in entries : \E a \in saved :
                          /\ resp.merged_unique[i].annotated_by = AnnotatorName(a)
                          /\ \E j \in RecordsOfId(annFiles[a], id) :
                                resp.merged_unique[i].annotation = annFiles[a][j].annotation

\* C9 as stated: a body that lacks a required field is answered with 400 and
\* no annotation file changes.
C9_MalformedGets400 ==
    [][\A req \in MalformedRequests :
          ApiAnnotate(req) => (resp'.status = 400 /\ annFiles' = annFiles)]_vars

\* ------------------------------------ SpecKappa: calculate_cohen_kappa, called directly
\* the annotation file of an annotator who gave items 1..Len(labels) the
\* annotations labels, saved at time 0
StoreOfLabels(labels) ==
    [i \in DOMAIN labels |-> RecordOf([item |-> Item(i), annotation |-> labels[i]], 0)]

\* annotator 0 found k events of type A, then one of type B, then none,
\* for k = 1 and for k = MaxKappaItems
FirstStores ==
    LET Value(event_type) == CHOOSE v \in AnnotationValues : v.event_type = event_type
    IN  {StoreOfLabels([i \in 1..MaxKappaItems |->
                            IF i <= k THEN Value("A")
                            ELSE IF i = k + 1 THEN Value("B") ELSE Value(None)]) :
            k \in {1, MaxKappaItems}}

\* annotator 1 annotated nothing, the first item only, or all of them, in any way
SecondStores ==
    {StoreOfLabels(labels) :
        labels \in [1..0 -> AnnotationValues] \cup [1..1 -> AnnotationValues]
                        \cup [1..MaxKappaItems -> AnnotationValues]}

InitKappa ==
    /\ config = StoreConfig
    /\ inputData = [i \in 1..MaxKappaItems |-> Item(i)]
    /\ planFile = <<>>
    /\ \E s0 \in FirstStores, s1 \in SecondStores :
          annFiles = [a \in RequestAnnotatorIds |-> IF a = 0 THEN s0 ELSE IF a = 1 THEN s1 ELSE <<>>]
    /\ rng = 1
    /\ rngAlgo = 0
    /\ clock = 0
    /\ resp = NoResp
    /\ prev = NoResp
    /\ threads = [t \in 1..MaxThreads |-> Idle(0)]

\* a call calculate_cohen_kappa(load_annotations(i), load_annotations(j)), the
\* first or the second of a behaviour: resp and prev hold the last two calls
CallCohenKappa(i, j) ==
    /\ prev.op = "none"
    /\ \E all_values \in ListsOfSet(KappaValueSet(LoadAnnotations(annFiles, i),
                                                  LoadAnnotations(annFiles, j))) :
          /\ resp' = [op |-> "cohen_kappa", first |-> i, second |-> j,
                      value |-> CalculateCohenKappa(LoadAnnotations(annFiles, i),
                                                    LoadAnnotations(annFiles, j), all_values)]
          /\ prev' = resp
          /\ UNCHANGED <<config, inputData, planFile, annFiles, rng, rngAlgo, clock, threads>>

\* a call calculate_fleiss_kappa(all_item_annotations) with the dict that
\* get_iaa_metrics collects from the files when every item is an overlap item
CallFleissKappa ==
    LET Called(all_annotations, compensated) ==
            [op |-> "fleiss_kappa", all_annotations |-> all_annotations,
             value |-> CalculateFleissKappa(all_annotations, compensated)]
    IN  /\ prev.op = "none"
        /\ \E compensated \in BOOLEAN :
              resp' = Called(OverlapAnnotations(config, annFiles,
                                                [i \in DOMAIN inputData |-> inputData[i].id]),
                             compensated)
        /\ prev' = resp
        /\ UNCHANGED <<config, inputData, planFile, annFiles, rng, rngAlgo, clock, threads>>

NextKappa ==
    \/ \E i, j \in 0..1 : i # j /\ CallCohenKappa(i, j)
    \/ CallFleissKappa

SpecKappa == InitKappa /\ [][NextKappa]_vars

\* C10: calculate_cohen_kappa(A, B) and calculate_cohen_kappa(B, A) return
\* the same value for all annotation lists A and B, the undefined value
\* (fewer than 2 common items) and the value 1.0 of pe = 1 included.
C10_CohenKappaSymmetric ==
    (/\ resp.op = "cohen_kappa" /\ prev.op = "cohen_kappa"
     /\ resp.first = prev.second /\ resp.second = prev.first)
        => resp.value = prev.value

\* ------------------------------------- SpecConc: calls that run in threads
\* app.run serves every request in a thread of its own, in one process: the
\* threads share the files and the random module. A thread runs
\* get_annotator_split_with_iaa(annotator_id, data) or
\* save_annotation(annotator_id, record) a statement at a time; a call's
\* random draws are taken in one step, and so is json.dump.

\* a thread that serves nothing takes a call
StartCall(t) ==
    LET calls == threads[t].calls + 1
    IN  /\ threads[t].pc = "idle"
        /\ calls <= MaxCalls
        /\ \/ \E annotator_id \in StoreAnnotatorIds :
                threads' = [threads EXCEPT ![t] =
                    [pc |-> "exists", calls |-> calls, call |-> "split",
                     annotator_id |-> annotator_id]]
           \/ \E req \in {r \in ValidRequests : r.annotator_id = 0 /\ r.annotation.event_type = "A"} :
                threads' = [threads EXCEPT ![t] =
                    [pc |-> "load_annotations", calls |-> calls, call |-> "save",
                     annotator_id |-> req.annotator_id,
                     annotation_data |-> RecordOf(req, clock)]]
        /\ UNCHANGED <<config, inputData, planFile, annFiles, rng, rngAlgo, clock, resp, prev>>

\* ensure_split_metadata: if os.path.exists(metadata_path)
EnsureExists(t) ==
    /\ threads[t].pc = "exists"
    /\ threads' = [threads EXCEPT ![t].pc = IF FileExists(planFile) THEN "load" ELSE "generate"]
    /\ UNCHANGED <<config, inputData, planFile, annFiles, rng, rngAlgo, clock, resp, prev>>

\* ensure_split_metadata: return load_json(metadata_path)
EnsureLoad(t) ==
    /\ threads[t].pc = "load"
    /\ IF planFile = Truncated
       THEN /\ resp' = [op |-> "split", raised |-> TRUE, annotator_id |-> threads[t].annotator_id]
            /\ prev' = resp
            /\ threads' = [threads EXCEPT ![t] = Idle(threads[t].calls)]
       ELSE /\ threads' = [threads EXCEPT ![t] =
                    [pc |-> "seed", calls |-> threads[t].calls, call |-> "split",
                     annotator_id |-> threads[t].annotator_id,
                     metadata |-> LoadJson(planFile), generated |-> FALSE]]
            /\ UNCHANGED <<resp, prev>>
    /\ UNCHANGED <<config, inputData, planFile, annFiles, rng, rngAlgo, clock>>

\* ensure_split_metadata: metadata = generate_split_metadata(all_data, config)
EnsureGenerate(t) ==
    LET g == GenerateSplitMetadata(inputData, config, rng, clock)
    IN  /\ threads[t].pc = "generate"
        /\ rng' = g.rng
        /\ threads' = [threads EXCEPT ![t] =
                [pc |-> "open", calls |-> threads[t].calls, call |-> "split",
                 annotator_id |-> threads[t].annotator_id,
                 metadata |-> g.plan, generated |-> TRUE]]
        /\ UNCHANGED <<config, inputData, planFile, annFiles, rngAlgo, clock, resp, prev>>

\* save_annotation up to the call of save_json: load_annotations, replace or
\* append, sort
SaveLoad(t) ==
    LET annotator_id == threads[t].annotator_id
    IN  /\ threads[t].pc = "load_annotations"
        /\ IF annFiles[annotator_id] = Truncated
           THEN /\ resp' = [op |-> "save", raised |-> TRUE, annotator_id |-> annotator_id,
                            annotation_data |-> threads[t].annotation_data]
                /\ prev' = resp
                /\ threads' = [threads EXCEPT ![t] = Idle(threads[t].calls)]
           ELSE /\ threads' = [threads EXCEPT ![t] =
                        [pc |-> "open", calls |-> threads[t].calls, call |-> "save",
                         annotator_id |-> annotator_id,
                         annotation_data |-> threads[t].annotation_data,
                         annotations |-> Upsert(LoadAnnotations(annFiles, annotator_id),
                                                threads[t].annotation_data)]]
                /\ UNCHANGED <<resp, prev>>
        /\ UNCHANGED <<config, inputData, planFile, annFiles, rng, rngAlgo, clock>>

\* save_json: open(full_path, 'w') of the plan file or of the annotator's file
SaveJsonOpen(t) ==
    /\ threads[t].pc = "open"
    /\ IF threads[t].call = "split"
       THEN planFile' = Truncated /\ UNCHANGED annFiles
       ELSE annFiles' = [annFiles EXCEPT ![threads[t].annotator_id] = Truncated]
                /\ UNCHANGED planFile
    /\ threads' = [threads EXCEPT ![t].pc = "dump"]
    /\ UNCHANGED <<config, inputData, rng, rngAlgo, clock, resp, prev>>

\* save_json: json.dump(data, f) and the close of the file; save_annotation
\* returns True after it, ensure_split_metadata returns the metadata
SaveJsonDump(t) ==
    /\ threads[t].pc = "dump"
    /\ IF threads[t].call = "split"
       THEN /\ planFile' = SaveJson(threads[t].metadata)
            /\ threads' = [threads EXCEPT ![t].pc = "seed"]
            /\ UNCHANGED <<annFiles, resp, prev>>
       ELSE /\ annFiles' = [annFiles EXCEPT ![threads[t].annotator_id] = threads[t].annotations]
            /\ resp' = [op |-> "save", raised |-> FALSE,
                        annotator_id |-> threads[t].annotator_id,
                        annotation_data |-> threads[t].annotation_data]
            /\ prev' = resp
            /\ threads' = [threads EXCEPT ![t] = Idle(threads[t].calls)]
            /\ UNCHANGED planFile
    /\ UNCHANGED <<config, inputData, rng, rngAlgo, clock>>

\* get_annotator_split_with_iaa: random.seed(SPLIT_SEED + annotator_id)
SplitSeed(t) ==
    /\ threads[t].pc = "seed"
    /\ rng' = RandomSeed(SPLIT_SEED + threads[t].annotator_id)
    /\ threads' = [threads EXCEPT ![t].pc = "shuffle"]
    /\ UNCHANGED <<config, inputData, planFile, annFiles, rngAlgo, clock, resp, prev>>

\* get_annotator_split_with_iaa: random.shuffle(all_items); return all_items
SplitShuffle(t) ==
    LET shuffled == RandomShuffle(SplitItems(threads[t].annotator_id, inputData,
                                             threads[t].metadata), rng)
    IN  /\ threads[t].pc = "shuffle"
        /\ rng' = shuffled.rng
        /\ resp' = [op |-> "split", raised |-> FALSE, annotator_id |-> threads[t].annotator_id,
                    items |-> shuffled.value, metadata |-> threads[t].metadata,
                    generated |-> threads[t].generated]
        /\ prev' = resp
        /\ threads' = [threads EXCEPT ![t] = Idle(threads[t].calls)]
        /\ UNCHANGED <<config, inputData, planFile, annFiles, rngAlgo, clock>>

\* the process is killed and started again: the files stay as they are, the
\* calls that were running are gone, the generator is seeded from the OS
Crash ==
    /\ \E t \in DOMAIN threads : threads[t].pc # "idle"
    /\ threads' = [t \in DOMAIN threads |-> Idle(threads[t].calls)]
    /\ \E r \in {1, 2} : rng' = r
    /\ resp' = [op |-> "crash"]
    /\ prev' = resp
    /\ UNCHANGED <<config, inputData, planFile, annFiles, rngAlgo, clock>>

NextConc ==
    \/ \E t \in DOMAIN threads :
        \/ StartCall(t)
        \/ EnsureExists(t)
        \/ EnsureLoad(t)
        \/ EnsureGenerate(t)
        \/ SaveLoad(t)
        \/ SaveJsonOpen(t)
        \/ SaveJsonDump(t)
        \/ SplitSeed(t)
        \/ SplitShuffle(t)
    \/ Tick /\ clock' <= MaxThreadClock
    \/ Crash

SpecConc == InitWith({StoreConfig}, {StoreInput}, {1}, 0..MaxRngAlgo) /\ [][NextConc]_vars

\* the event types, None left out, among the ratings of the items of
\* all_annotations that have two or more ratings
RatedCategories(all_annotations) ==
    {v \in UNION {{Get(all_annotations[k][2][i].annotation, "event_type", None) :
                        i \in DOMAIN all_annotations[k][2]} :
                    k \in {m \in DOMAIN all_annotations : Len(all_annotations[m][2]) >= 2}} :
        v # None}

\* C11: calculate_fleiss_kappa returns None when no item has two or more
\* ratings and when fewer than two distinct event types appear among the
\* ratings of the items that have two or more (None is not an event type;
\* counting it as one leaves fewer cases to answer for).
C11_FleissUndefined ==
    (/\ resp.op = "fleiss_kappa"
     /\ Cardinality(RatedCategories(resp.all_annotations)) < 2)
        => resp.value = Undefined

\* every item has two ratings and all of them are "A"
C11_Witness ==
    /\ resp.op = "fleiss_kappa"
    /\ Len(resp.all_annotations) = MaxKappaItems
    /\ \A k \in DOMAIN resp.all_annotations : Len(resp.all_annotations[k][2]) = 2
    /\ RatedCategories(resp.all_annotations) = {"A"}
    /\ resp.value = Undefined

\* no item has two ratings
C11_WitnessNoPair ==
    /\ resp.op = "fleiss_kappa"
    /\ resp.all_annotations # <<>>
    /\ \A k \in DOMAIN resp.all_annotations : Len(resp.all_annotations[k][2]) = 1
    /\ resp.value = Undefined

\* the number of the first j overlap items that annotator a was assigned
OverlapCountAfter(plan, j, a) ==
    Cardinality({i \in 1..j : InList(a, plan.overlap_assignments[i][2])})

\* C16: after each overlap item is assigned, the overlap-item counts of any
\* two annotators differ by at most 1 (overlap_assignments keeps the items
\* in the order they were assigned); the last prefix is the final plan.
C16_OverlapCountsWithinOne ==
    resp.op = "generate" =>
        \A j \in 0..Len(resp.plan.overlap_assignments) :
            \A a, b \in 0..(resp.config.num_annotators - 1) :
                OverlapCountAfter(resp.plan, j, a) - OverlapCountAfter(resp.plan, j, b) <= 1

\* three overlap items, two of three annotators each: the second item must
\* take the annotator the first one left out
C16_Witness ==
    /\ resp.op = "generate"
    /\ Len(resp.plan.overlap_assignments) = 3
    /\ resp.config.num_annotators = 3
    /\ resp.config.overlap_annotators = 2
    /\ \E a \in 0..2 :
        /\ OverlapCountAfter(resp.plan, 1, a) = 0
        /\ OverlapCountAfter(resp.plan, 2, a) = 1
    /\ \A a \in 0..2 : OverlapCountAfter(resp.plan, 3, a) = 2

\* C17: whatever submissions were accepted before, the progress reported
\* for an annotator has completed <= total and percentage <= 100 (percentage
\* is in tenths of a percent here).
C17_ProgressWithinTotal ==
    resp.op = "progress" =>
        /\ resp.completed <= resp.total
        /\ resp.percentage <= 1000

\* C12: of the calls of ensure_split_metadata that run at the same time with
\* no plan persisted, one generates and writes the plan: a plan file that is
\* written completely is never written again, and a call that returns,
\* returns the plan of the file.
C12_PlanWrittenOnce ==
    [][/\ (FileExists(planFile) /\ planFile # Truncated) => planFile' = planFile
       /\ \A t \in DOMAIN threads :
            SplitShuffle(t) => planFile' = SaveJson(resp'.metadata)]_vars

\* C13: a save_annotation that returns after another one of the same
\* annotator has returned leaves a file that is sorted by id with one record
\* per id, holds its own record, holds the other's record when the ids
\* differ, and leaves the other annotators' files as they were.
C13_SavesSerialized ==
    [][\A t \in DOMAIN threads :
          (/\ SaveJsonDump(t)
           /\ threads[t].call = "save"
           /\ resp.op = "save" /\ ~resp.raised
           /\ resp.annotator_id = threads[t].annotator_id)
            => LET after == annFiles'[threads[t].annotator_id]
               IN  /\ IsStrictlySortedInts([i \in DOMAIN after |-> after[i].id])
                   /\ InList(threads[t].annotation_data, after)
                   /\ resp.annotation_data.id # threads[t].annotation_data.id
                        => InList(resp.annotation_data, after)
                   /\ \A b \in DOMAIN annFiles :
                        b # threads[t].annotator_id => annFiles'[b] = annFiles[b]]_vars

\* C14: a call of get_annotator_split_with_iaa that returns, returns the
\* annotator's items of the plan in the order that the seed
\* SPLIT_SEED + annotator_id gives, whatever the other threads do meanwhile.
C14_SplitOrderStable ==
    (resp.op = "split" /\ ~resp.raised)
        => resp.items = RandomShuffle(SplitItems(resp.annotator_id, inputData, resp.metadata),
                                      RandomSeed(SPLIT_SEED + resp.annotator_id)).value

\* C15: after a crash, whenever it strikes, the plan file and every
\* annotator's file is absent or complete, the old content or the new.
C15_NoTruncatedFileAfterCrash ==
    resp.op = "crash" =>
        /\ planFile # Truncated
        /\ \A a \in DOMAIN annFiles : annFiles[a] # Truncated

====
